---------------------------- MODULE Spec2Model ----------------------------
(***************************************************************************)
(* Playback session controller of dev-hann/song.                           *)
(*                                                                         *)
(* The store (useAudioStore, src/unnamed/part_003) owns the current track, *)
(* the transport status, the playback numbers, the mode flags and the      *)
(* queue with its cursor.  The FullPlayer component (src/unnamed/part_005) *)
(* owns the stream URL it fetched for the current track and an audio       *)
(* element; the AppLayout component (src/unnamed/part_004) owns a second   *)
(* audio element fed by a react-query stream query.  The route             *)
(* GET /api/youtube/audio/info (src/unnamed/part_008) serves the metadata. *)
(*                                                                         *)
(* Representation.  A track is its id (a string).  Indices are 0-based as  *)
(* in the code, so queue[i] of the code is At(queue, i) here.  Speeds are  *)
(* in hundredths (1x = 100), times and durations in whole seconds.         *)
(***************************************************************************)
EXTENDS Integers, Sequences, FiniteSets, TLC

VARIABLES
    audio,          \* store.audio: a track id, or NULL
    playback,       \* store.playback: [currentTime, duration, speed]
    status,         \* store.status
    repeatMode,     \* store.repeatMode
    shuffle,        \* store.shuffle
    liked,          \* store.liked
    queue,          \* store.queue: sequence of track ids
    currentIndex,   \* store.currentIndex (0-based, -1 when there is none)
    infoPending,    \* setAudio calls suspended at `await fetchAudioInfo(id)`: id -> count
    streamUrl,      \* FullPlayer streamUrl state: NULL or the id the URL was fetched for
    streamPending,  \* FullPlayer fetchStreamUrl calls suspended at the await: id -> count
    playerError,    \* FullPlayer error state: NULL or a message
    buffered,       \* FullPlayer's buffered state: how far the stream is buffered
    mounted,        \* whether a FullPlayer is rendered for the store's current track
    device,         \* FullPlayer's audio element: [src, canPlay, ended, position,
                    \*   duration, timeupdate, buffered]
    layout,         \* whether the AppLayout is rendered
    streamQuery,    \* AppLayout's stream queries: id -> [data, fetching, failureCount, error]
    layoutDevice,   \* AppLayout's audio element, with the same fields
    innertubeInstance, \* lib/youtube: the cached resolver session (its number), or NoSession
    created,        \* resolver sessions created so far (the newest one's number)
    route,          \* the info route's requests: request -> its position and locals
    op,             \* observer: the operation that ran last
    from,           \* observer: currentIndex before that operation
    calls,          \* observer: number of playNext calls of a next()-only run
    start           \* observer: cursor and track at the start of the run

storeVars  == <<audio, playback, status, repeatMode, shuffle, liked, queue, currentIndex>>
playerVars == <<streamUrl, streamPending, playerError, mounted, buffered>>
layoutVars == <<layout, streamQuery, layoutDevice>>
serverVars == <<innertubeInstance, created, route>>
vars == <<audio, playback, status, repeatMode, shuffle, liked, queue, currentIndex,
          infoPending, streamUrl, streamPending, playerError, mounted, buffered, device,
          layout, streamQuery, layoutDevice, innertubeInstance, created, route,
          op, from, calls, start>>

----------------------------------------------------------------------------
(* Bounds *)

MaxQueue == 3       \* longest seeded queue
MaxInFlight == 2    \* most fetches of one kind suspended at a time
MaxRequests == 2    \* requests the info route serves at a time
ShortTrack == 1     \* duration of the queue tracks, in seconds

(* Values *)

NULL == "null"
UNDEFINED == "undefined"

IDLE == "idle"
LOADING == "loading"
PLAYING == "playing"
PAUSED == "paused"
ERROR == "error"

OFF == "off"
ALL == "all"
ONE == "one"

RepeatModes == <<OFF, ALL, ONE>>

\* The queue tracks (as many as the longest queue) and one track that is
\* never in the queue (played ad hoc from the search results).
TrackIds == <<"t1", "t2", "t3", "t4", "t5", "t6">>
AdHoc == "x"
QueueIds == {TrackIds[i] : i \in 1..MaxQueue}
AudioIds == QueueIds \cup {AdHoc}

\* Ids handed to setAudio: the first queue track and the ad hoc track.
LoadIds == {TrackIds[1], AdHoc}

RestartThreshold == 3

\* Times reported by the device: around the restart threshold of playPrevious.
TimeInputs == {0, RestartThreshold - 1, RestartThreshold, RestartThreshold + 1}
DurationInputs == {0, RestartThreshold}
\* Speeds handed to updatePlaybackSpeed: the store takes any number.
SpeedInputs == {10, 150, 300}

InitialPlayback == [currentTime |-> 0, duration |-> 0, speed |-> 100]

\* retry of the stream query: failed requests that are sent again.
Retry == 1

\* The ad hoc track is long enough for previous() to restart it.
LongTrack == RestartThreshold + 1

\* Durations of the tracks' streams, and the positions an element reports.
Duration(id) == IF id = AdHoc THEN LongTrack ELSE ShortTrack
Positions == {0, ShortTrack, LongTrack}

\* An audio element with no source: nothing known of a duration (0), nothing
\* buffered, no timeupdate event waiting to be handled.
NoDevice == [src |-> NULL, canPlay |-> FALSE, ended |-> FALSE, position |-> 0,
             duration |-> 0, timeupdate |-> FALSE, buffered |-> 0]

\* A stream query that has never run.
NoQuery == [data |-> FALSE, fetching |-> FALSE, failureCount |-> 0, error |-> FALSE]

Requests == 1..MaxRequests

\* Resolver sessions are numbered from 1 in the order of their creation.
NoSession == 0

\* Ids in the query string of a request: none, or a track's.
RequestIds == {NULL, TrackIds[1]}

\* A request the route has not received yet.  Of a request the route keeps
\* where it is, the session in its local innertube, the lookup attempts it
\* has started and those that failed, the number of sessions there were when
\* it cleared the cache, and its response.
Response(code, message) == [status |-> code, error |-> message]

NoRequest == [pc |-> "idle", innertube |-> NoSession, attempts |-> 0, failed |-> 0,
              clearedAt |-> 0, response |-> Response(0, FALSE)]

----------------------------------------------------------------------------
(* Helpers *)

\* JavaScript array read: out of range is undefined.
At(q, i) == IF i >= 0 /\ i < Len(q) THEN q[i + 1] ELSE UNDEFINED

RECURSIVE Total(_, _)
Total(f, S) == IF S = {} THEN 0
               ELSE LET x == CHOOSE y \in S : TRUE IN f[x] + Total(f, S \ {x})

NoFetch == [id \in AudioIds |-> 0]
Add(f, id) == [f EXCEPT ![id] = @ + 1]
Remove(f, id) == [f EXCEPT ![id] = @ - 1]


\* What the observer records of an operation.
Observe(name) == op' = name /\ from' = currentIndex

\* audio.src = url; audio.load() on the element dev: the element starts over
\* on url, and a position that this resets to 0 is reported by a timeupdate
\* event, which is handled before any event of the new source.
Bound(dev, url) ==
    [src |-> url, canPlay |-> FALSE, ended |-> FALSE, position |-> 0, duration |-> 0,
     timeupdate |-> (dev.timeupdate \/ dev.position # 0), buffered |-> 0]

\* isPlaying as the components are given it.
IsPlaying(s) == s = PLAYING

----------------------------------------------------------------------------
(* FullPlayer: the effect on [audioId] (audioId is the current track's id) *)

\* The fetch effect runs when audioId has changed and is not null: one more
\* fetchStreamUrl is suspended at `await fetchAudioStream(audioId)`.
FetchEffect(newAudio) ==
    IF mounted /\ newAudio # audio /\ newAudio # NULL
    THEN /\ Total(streamPending, AudioIds) < MaxInFlight
         /\ streamPending' = Add(streamPending, newAudio)
    ELSE streamPending' = streamPending

\* The effect on [streamUrl, isPlaying] when an operation leaves the status
\* at newStatus: it runs again when isPlaying has changed, and with a stream
\* URL it sets audio.src and calls audio.load().
BindEffect(newStatus) ==
    device' = IF mounted /\ streamUrl # NULL /\ IsPlaying(newStatus) # IsPlaying(status)
              THEN Bound(device, streamUrl)
              ELSE device

\* The await resumes with data: setStreamUrl(data.url); setError(null).  A
\* URL that differs from the one kept runs the effect on [streamUrl]; a second
\* fetch for the same track may return the same URL or another one.
StreamFetchOk(id) ==
    /\ streamPending[id] > 0
    /\ streamPending' = Remove(streamPending, id)
    /\ streamUrl' = id
    /\ playerError' = NULL
    /\ \/ device' = Bound(device, id)
       \/ streamUrl = id /\ device' = device
    /\ Observe("streamOk")
    /\ UNCHANGED <<storeVars, infoPending, mounted, buffered, layoutVars, serverVars, calls, start>>

\* The await throws: setError(...); the stream URL is left as it was.
StreamFetchFail(id) ==
    /\ streamPending[id] > 0
    /\ streamPending' = Remove(streamPending, id)
    /\ playerError' = "stream"
    /\ Observe("streamFail")
    /\ UNCHANGED <<storeVars, infoPending, streamUrl, mounted, buffered, device, layoutVars,
                   serverVars, calls, start>>

\* The element reports canplay: handleCanPlay unmutes it and, when isPlaying,
\* plays it.
CanPlay ==
    /\ mounted
    /\ device.src # NULL
    /\ ~device.canPlay
    /\ device' = [device EXCEPT !.canPlay = TRUE]
    /\ Observe("canplay")
    /\ UNCHANGED <<storeVars, infoPending, playerVars, layoutVars, serverVars, calls, start>>

\* The element reports loadedmetadata: handleLoadedMetadata stores the
\* duration of the stream in the component and in the store.
HandleLoadedMetadata ==
    /\ mounted
    /\ device.src # NULL
    /\ device.duration = 0
    /\ ~device.timeupdate
    /\ device' = [device EXCEPT !.duration = Duration(device.src)]
    /\ playback' = [playback EXCEPT !.duration = Duration(device.src)]
    /\ Observe("loadedmetadata")
    /\ UNCHANGED <<audio, status, repeatMode, shuffle, liked, queue, currentIndex,
                   infoPending, playerVars, layoutVars, serverVars, calls, start>>

\* The element has buffered more of its stream and reports progress:
\* handleProgress stores the end of the last buffered range.
HandleProgress ==
    /\ mounted
    /\ device.src # NULL
    /\ \E end \in Positions :
         /\ end > device.buffered
         /\ end <= Duration(device.src)
         /\ device' = [device EXCEPT !.buffered = end]
         /\ buffered' = end
    /\ Observe("progress")
    /\ UNCHANGED <<storeVars, infoPending, streamUrl, streamPending, playerError, mounted,
                   layoutVars, serverVars, calls, start>>

\* The element reports error: handleError keeps a message in the component.
HandleError ==
    /\ mounted
    /\ device.src # NULL
    /\ playerError' = "playback"
    /\ Observe("error")
    /\ UNCHANGED <<storeVars, infoPending, streamUrl, streamPending, mounted, buffered, device,
                   layoutVars, serverVars, calls, start>>

----------------------------------------------------------------------------
(* AppLayout: the stream query of useAudioStream(audio?.id) and the element *)

\* The query key has changed to newAudio: a query with no data, or with
\* data gone stale, starts fetching unless it is fetching already; data kept
\* for the key is streamData at once and the effect on [streamData?.url]
\* sets audio.src and calls audio.load().
LayoutEffect(newAudio) ==
    IF layout /\ newAudio \in AudioIds /\ newAudio # audio
    THEN LET q == streamQuery[newAudio]
         IN  /\ \/ /\ ~q.fetching
                   /\ streamQuery' = [streamQuery EXCEPT ![newAudio] =
                          [q EXCEPT !.fetching = TRUE, !.failureCount = 0,
                                    !.error = (q.data /\ q.error)]]
                \/ /\ q.fetching \/ q.data
                   /\ streamQuery' = streamQuery
             /\ layoutDevice' = IF q.data THEN Bound(layoutDevice, newAudio) ELSE layoutDevice
    ELSE UNCHANGED <<streamQuery, layoutDevice>>

\* fetchAudioStream(id) resolves: the query has data.  For the current track
\* a URL that differs from the one bound runs the effect on [streamData?.url].
StreamQueryOk(id) ==
    /\ layout
    /\ streamQuery[id].fetching
    /\ streamQuery' = [streamQuery EXCEPT ![id] =
           [data |-> TRUE, fetching |-> FALSE, failureCount |-> 0, error |-> FALSE]]
    /\ IF id = audio
       THEN \/ layoutDevice' = Bound(layoutDevice, id)
            \/ streamQuery[id].data /\ layoutDevice' = layoutDevice
       ELSE layoutDevice' = layoutDevice
    /\ Observe("streamQueryOk")
    /\ UNCHANGED <<storeVars, infoPending, playerVars, device, layout, serverVars,
                   calls, start>>

\* fetchAudioStream(id) throws: with retry: 1 the first failure sends the
\* request again, the second one leaves the query in error.
StreamQueryFail(id) ==
    /\ layout
    /\ streamQuery[id].fetching
    /\ streamQuery' = [streamQuery EXCEPT ![id] =
           IF @.failureCount < Retry
           THEN [@ EXCEPT !.failureCount = @ + 1]
           ELSE [@ EXCEPT !.failureCount = @ + 1, !.fetching = FALSE, !.error = TRUE]]
    /\ Observe("streamQueryFail")
    /\ UNCHANGED <<storeVars, infoPending, playerVars, device, layout, layoutDevice,
                   serverVars, calls, start>>

\* The element reports canplay: handleCanPlay unmutes it and plays it.
LayoutCanPlay ==
    /\ layout
    /\ layoutDevice.src # NULL
    /\ ~layoutDevice.canPlay
    /\ layoutDevice' = [layoutDevice EXCEPT !.canPlay = TRUE]
    /\ Observe("layoutCanplay")
    /\ UNCHANGED <<storeVars, infoPending, playerVars, device, layout, streamQuery,
                   serverVars, calls, start>>

\* The element has played to its end and reports ended: handleEnded is empty.
LayoutEnded ==
    /\ layout
    /\ layoutDevice.canPlay
    /\ ~layoutDevice.ended
    /\ IsPlaying(status)
    /\ layoutDevice' = [layoutDevice EXCEPT !.ended = TRUE]
    /\ Observe("layoutEnded")
    /\ UNCHANGED <<storeVars, infoPending, playerVars, device, layout, streamQuery,
                   serverVars, calls, start>>

\* The element reports error: handleError logs it.
LayoutError ==
    /\ layout
    /\ layoutDevice.src # NULL
    /\ Observe("layoutError")
    /\ UNCHANGED <<storeVars, infoPending, playerVars, device, layoutVars, serverVars,
                   calls, start>>

\* The element plays on: its position moves towards the end of the stream.
LayoutTick ==
    /\ layout
    /\ layoutDevice.canPlay
    /\ layoutDevice.duration # 0
    /\ \E position \in Positions :
         /\ position > layoutDevice.position
         /\ position <= layoutDevice.duration
         /\ layoutDevice' = [layoutDevice EXCEPT !.position = position]
    /\ Observe("layoutTick")
    /\ UNCHANGED <<storeVars, infoPending, playerVars, device, layout, streamQuery,
                   serverVars, calls, start>>

\* The element reports timeupdate: handleTimeUpdate stores the position the
\* element has now.
LayoutTimeUpdate ==
    /\ layout
    /\ layoutDevice.src # NULL
    /\ playback' = [playback EXCEPT !.currentTime = layoutDevice.position]
    /\ layoutDevice' = [layoutDevice EXCEPT !.timeupdate = FALSE]
    /\ Observe("layoutTimeupdate")
    /\ UNCHANGED <<audio, status, repeatMode, shuffle, liked, queue, currentIndex,
                   infoPending, playerVars, device, layout, streamQuery, serverVars,
                   calls, start>>

\* The element reports loadedmetadata: handleLoadedMetadata stores the
\* duration of the stream.
LayoutLoadedMetadata ==
    /\ layout
    /\ layoutDevice.src # NULL
    /\ layoutDevice.duration = 0
    /\ ~layoutDevice.timeupdate
    /\ layoutDevice' = [layoutDevice EXCEPT !.duration = Duration(layoutDevice.src)]
    /\ playback' = [playback EXCEPT !.duration = Duration(layoutDevice.src)]
    /\ Observe("layoutLoadedmetadata")
    /\ UNCHANGED <<audio, status, repeatMode, shuffle, liked, queue, currentIndex,
                   infoPending, playerVars, device, layout, streamQuery, serverVars,
                   calls, start>>

----------------------------------------------------------------------------
(* The route GET /api/youtube/audio/info and the resolver session of lib/youtube *)

\* clearInnertubeCache(): the cached session is dropped.
ClearedInstance == NoSession

\* Mutant: the second lookup's failure is retried like the first one's.
RetriedAlways(pc) == TRUE

\* The inner catch: only the failure of the first lookup is retried.
Retried(pc) == pc = "getInfo"

\* getInnertube() as called by request r at position pc with the cached
\* session cache: r goes on with the cached session, or waits for
\* Innertube.create.  A lookup attempt starts with the call at "start" and
\* with the call in the inner catch.
GetInnertube(r, pc, cache, q) ==
    IF cache # NoSession
    THEN [q EXCEPT !.pc = IF pc = "start" THEN "getInfo" ELSE "retryGetInfo",
                   !.innertube = cache]
    ELSE [q EXCEPT !.pc = IF pc = "start" THEN "create" ELSE "retryCreate"]

\* The route receives request r: 400 without an id, else getInnertube().
RouteGet(r, id) ==
    /\ route[r].pc = "idle"
    /\ route' = [route EXCEPT ![r] =
           IF id = NULL
           THEN [@ EXCEPT !.pc = "done", !.response = Response(400, TRUE)]
           ELSE GetInnertube(r, "start", innertubeInstance, [@ EXCEPT !.attempts = 1])]
    /\ Observe("routeGet")
    /\ UNCHANGED <<storeVars, infoPending, playerVars, device, layoutVars,
                   innertubeInstance, created, calls, start>>

\* Innertube.create resolves for r: the new session is cached and used.
CreateOk(r) ==
    /\ route[r].pc \in {"create", "retryCreate"}
    /\ created' = created + 1
    /\ innertubeInstance' = created + 1
    /\ route' = [route EXCEPT ![r] =
           [@ EXCEPT !.pc = IF @ = "create" THEN "getInfo" ELSE "retryGetInfo",
                     !.innertube = created + 1]]
    /\ Observe("createOk")
    /\ UNCHANGED <<storeVars, infoPending, playerVars, device, layoutVars, calls, start>>

\* Innertube.create throws for r: the outer catch answers 500.
CreateFail(r) ==
    /\ route[r].pc \in {"create", "retryCreate"}
    /\ route' = [route EXCEPT ![r] =
           [@ EXCEPT !.pc = "done",
                     !.failed = IF route[r].pc = "retryCreate" THEN @ + 1 ELSE @,
                     !.response = Response(500, TRUE)]]
    /\ Observe("createFail")
    /\ UNCHANGED <<storeVars, infoPending, playerVars, device, layoutVars,
                   innertubeInstance, created, calls, start>>

\* innertube.getInfo(id) resolves for r: 200 with the validated info, or 500
\* when fromBasicInfo or the schema throws.
GetInfoOk(r, valid) ==
    /\ route[r].pc \in {"getInfo", "retryGetInfo"}
    /\ route' = [route EXCEPT ![r] =
           [@ EXCEPT !.pc = "done",
                     !.response = IF valid THEN Response(200, FALSE)
                                  ELSE Response(500, TRUE)]]
    /\ Observe("getInfoOk")
    /\ UNCHANGED <<storeVars, infoPending, playerVars, device, layoutVars,
                   innertubeInstance, created, calls, start>>

\* innertube.getInfo(id) throws for r: the first lookup's failure clears the
\* cache and calls getInnertube() again, the second one's answers 500.
GetInfoFail(r) ==
    /\ route[r].pc \in {"getInfo", "retryGetInfo"}
    /\ IF Retried(route[r].pc)
       THEN /\ innertubeInstance' = ClearedInstance
            /\ route' = [route EXCEPT ![r] =
                   GetInnertube(r, "catch", ClearedInstance,
                                [@ EXCEPT !.failed = @ + 1, !.attempts = @ + 1,
                                          !.clearedAt = created])]
       ELSE /\ innertubeInstance' = innertubeInstance
            /\ route' = [route EXCEPT ![r] =
                   [@ EXCEPT !.pc = "done", !.failed = @ + 1,
                             !.response = Response(500, TRUE)]]
    /\ Observe("getInfoFail")
    /\ UNCHANGED <<storeVars, infoPending, playerVars, device, layoutVars, created,
                   calls, start>>

----------------------------------------------------------------------------
(* The store *)

\* setAudio up to the await: status LOADING, the fetch is in flight.
setAudio(id) ==
    /\ Total(infoPending, AudioIds) < MaxInFlight
    /\ status' = LOADING
    /\ infoPending' = Add(infoPending, id)
    /\ BindEffect(LOADING)
    /\ Observe("setAudio")
    /\ UNCHANGED <<audio, playback, repeatMode, shuffle, liked, queue, currentIndex,
                   playerVars, layoutVars, serverVars>>

SetAudio(id) == setAudio(id) /\ UNCHANGED <<calls, start>>

\* setAudio called from the search results, the observer keeping the track
\* the latest call asked for.
Load(id) ==
    /\ setAudio(id)
    /\ start' = [start EXCEPT !.audio = id]
    /\ UNCHANGED calls

\* The await resumes with the metadata: audio and status PLAYING are set.
SetAudioOk(id) ==
    /\ infoPending[id] > 0
    /\ infoPending' = Remove(infoPending, id)
    /\ audio' = id
    /\ status' = PLAYING
    /\ FetchEffect(id)
    /\ BindEffect(PLAYING)
    /\ LayoutEffect(id)
    /\ Observe("setAudioOk")
    /\ UNCHANGED <<playback, repeatMode, shuffle, liked, queue, currentIndex,
                   streamUrl, playerError, mounted, buffered, layout, serverVars, calls, start>>

\* The await throws: status ERROR.
SetAudioFail(id) ==
    /\ infoPending[id] > 0
    /\ infoPending' = Remove(infoPending, id)
    /\ status' = ERROR
    /\ BindEffect(ERROR)
    /\ Observe("setAudioFail")
    /\ UNCHANGED <<audio, playback, repeatMode, shuffle, liked, queue, currentIndex,
                   playerVars, layoutVars, serverVars, calls, start>>

ClearAudio ==
    /\ audio' = NULL
    /\ status' = IDLE
    /\ playback' = InitialPlayback
    /\ BindEffect(IDLE)
    /\ Observe("clearAudio")
    /\ UNCHANGED <<repeatMode, shuffle, liked, queue, currentIndex, infoPending,
                   playerVars, layoutVars, serverVars, calls, start>>

TogglePlay ==
    /\ status' = IF status = PLAYING THEN PAUSED ELSE PLAYING
    /\ BindEffect(status')
    /\ Observe("togglePlay")
    /\ UNCHANGED <<audio, playback, repeatMode, shuffle, liked, queue, currentIndex,
                   infoPending, playerVars, layoutVars, serverVars, calls, start>>

UpdatePlaybackTime(time) ==
    /\ playback' = [playback EXCEPT !.currentTime = time]
    /\ Observe("updatePlaybackTime")
    /\ UNCHANGED <<audio, status, repeatMode, shuffle, liked, queue, currentIndex,
                   infoPending, playerVars, device, layoutVars, serverVars, calls, start>>

UpdatePlaybackDuration(duration) ==
    /\ playback' = [playback EXCEPT !.duration = duration]
    /\ Observe("updatePlaybackDuration")
    /\ UNCHANGED <<audio, status, repeatMode, shuffle, liked, queue, currentIndex,
                   infoPending, playerVars, device, layoutVars, serverVars, calls, start>>

\* The speed the store keeps for updatePlaybackSpeed(speed).
StoredSpeed(speed) == speed

UpdatePlaybackSpeed(speed) ==
    /\ playback' = [playback EXCEPT !.speed = StoredSpeed(speed)]
    /\ Observe("updatePlaybackSpeed")
    /\ UNCHANGED <<audio, status, repeatMode, shuffle, liked, queue, currentIndex,
                   infoPending, playerVars, device, layoutVars, serverVars, calls, start>>

IndexOf(modes, mode) == (CHOOSE i \in 1..Len(modes) : modes[i] = mode) - 1

\* Mutant: the mode before the present one in the list.
NextModeBackwards(mode) ==
    At(RepeatModes, (IndexOf(RepeatModes, mode) + 2) % Len(RepeatModes))

\* modes[(currentIndex + 1) % modes.length]
NextMode(mode) ==
    At(RepeatModes, (IndexOf(RepeatModes, mode) + 1) % Len(RepeatModes))

ToggleRepeatMode ==
    /\ repeatMode' = NextMode(repeatMode)
    /\ Observe("toggleRepeatMode")
    /\ UNCHANGED <<audio, playback, status, shuffle, liked, queue, currentIndex,
                   infoPending, playerVars, device, layoutVars, serverVars, calls, start>>

ToggleShuffle ==
    /\ shuffle' = ~shuffle
    /\ Observe("toggleShuffle")
    /\ UNCHANGED <<audio, playback, status, repeatMode, liked, queue, currentIndex,
                   infoPending, playerVars, device, layoutVars, serverVars, calls, start>>

\* Mutant: liking a track also switches shuffle off.
ToggleLikeResetsShuffle ==
    /\ liked' = ~liked
    /\ shuffle' = FALSE
    /\ Observe("toggleLike")
    /\ UNCHANGED <<audio, playback, status, repeatMode, queue, currentIndex,
                   infoPending, playerVars, device, layoutVars, serverVars, calls, start>>

ToggleLike ==
    /\ liked' = ~liked
    /\ Observe("toggleLike")
    /\ UNCHANGED <<audio, playback, status, repeatMode, shuffle, queue, currentIndex,
                   infoPending, playerVars, device, layoutVars, serverVars, calls, start>>

\* Mutant: Math.round instead of Math.floor, the index can be length.
RandomIndicesRounded(length) == 0..length

\* Math.floor(Math.random() * length): any index of the queue.
RandomIndices(length) == 0..(length - 1)

\* The early return of playNext and playPrevious (no set call).
RETURN == -2

\* Mutant: no overflow check, the cursor runs past the end.
NextIndexNoBound(index, length, shuf, mode, random) ==
    LET nextIndex == IF shuf THEN random ELSE index + 1
    IN  IF nextIndex = index THEN RETURN ELSE nextIndex

\* Mutant: wraps at the end whatever the repeat mode.
NextIndexAlwaysWrap(index, length, shuf, mode, random) ==
    LET nextIndex ==
            IF shuf THEN random
            ELSE IF index + 1 >= length THEN 0 ELSE index + 1
    IN  IF nextIndex = index THEN RETURN ELSE nextIndex

\* Mutant: wraps at the end unless repeat is off (repeat ONE wraps too).
NextIndexWrapUnlessOff(index, length, shuf, mode, random) ==
    LET nextIndex ==
            IF shuf THEN random
            ELSE IF index + 1 >= length
                 THEN (IF mode # OFF THEN 0 ELSE RETURN)
                 ELSE index + 1
    IN  IF nextIndex = index THEN RETURN ELSE nextIndex

\* Mutant: never wraps, repeat ALL stops at the end like repeat OFF.
NextIndexNoWrap(index, length, shuf, mode, random) ==
    LET nextIndex ==
            IF shuf THEN random
            ELSE IF index + 1 >= length THEN RETURN ELSE index + 1
    IN  IF nextIndex = index THEN RETURN ELSE nextIndex

\* playNext, lines 104-121: the index to move to, or RETURN.
NextIndex(index, length, shuf, mode, random) ==
    LET nextIndex ==
            IF shuf THEN random
            ELSE IF index + 1 >= length
                 THEN (IF mode = ALL THEN 0 ELSE RETURN)
                 ELSE index + 1
    IN  IF nextIndex = index THEN RETURN ELSE nextIndex

\* playPrevious, lines 141-153: the index to move to, or RETURN.
PrevIndex(index, length, shuf, mode, random) ==
    IF shuf THEN random
    ELSE IF index - 1 < 0
         THEN (IF mode = ALL THEN length - 1 ELSE RETURN)
         ELSE index - 1

\* Mutant: navigation on an empty queue leaves the current track alone.
StoppedAudioKept == audio

\* The current track once navigation finds the queue empty.
StoppedAudio == NULL

\* Mutant: the restart starts one second late.
RestartGuardLate(time) == time > RestartThreshold + 1

\* Mutant: the restart starts at the threshold itself (>= for >).
RestartGuardEarly(time) == time >= RestartThreshold

\* playPrevious, line 131: restart the track instead of moving.
RestartGuard(time) == time > RestartThreshold

\* What one playNext() does to the store and to the components that render
\* the current track.
Advance ==
    /\ IF Len(queue) = 0
       THEN /\ audio' = StoppedAudio
            /\ FetchEffect(StoppedAudio)
            /\ UNCHANGED <<currentIndex, streamQuery, layoutDevice>>
       ELSE \E random \in RandomIndices(Len(queue)) :
              LET nextIndex == NextIndex(currentIndex, Len(queue), shuffle, repeatMode, random)
              IN  IF nextIndex = RETURN
                  THEN UNCHANGED <<audio, currentIndex, streamPending, streamQuery,
                                   layoutDevice>>
                  ELSE /\ currentIndex' = nextIndex
                       /\ audio' = At(queue, nextIndex)
                       /\ FetchEffect(At(queue, nextIndex))
                       /\ LayoutEffect(At(queue, nextIndex))
    /\ UNCHANGED <<playback, status, repeatMode, shuffle, liked, queue, infoPending,
                   streamUrl, playerError, mounted, buffered, layout, serverVars>>

playNext ==
    /\ Observe("playNext")
    /\ Advance
    /\ UNCHANGED device

PlayNext == playNext /\ UNCHANGED <<calls, start>>

\* FullPlayer's element has played to its end and reports ended: handleEnded
\* seeks to 0 and plays again when repeat is ONE, and calls playNext() if not.
HandleEnded ==
    /\ mounted
    /\ device.canPlay
    /\ ~device.ended
    /\ IsPlaying(status)
    /\ Observe("ended")
    /\ IF repeatMode = ONE
       THEN /\ device' = [device EXCEPT !.ended = FALSE]
            /\ UNCHANGED <<storeVars, infoPending, playerVars, layoutVars, serverVars>>
       ELSE /\ device' = [device EXCEPT !.ended = TRUE]
            /\ Advance
    /\ UNCHANGED <<calls, start>>

PlayPrevious ==
    /\ Observe("playPrevious")
    /\ IF RestartGuard(playback.currentTime)
       THEN /\ playback' = [playback EXCEPT !.currentTime = 0]
            /\ UNCHANGED <<audio, currentIndex, streamPending, streamQuery, layoutDevice>>
       ELSE /\ UNCHANGED playback
            /\ IF Len(queue) = 0
               THEN /\ audio' = StoppedAudio
                    /\ FetchEffect(StoppedAudio)
                    /\ UNCHANGED <<currentIndex, streamQuery, layoutDevice>>
               ELSE \E random \in RandomIndices(Len(queue)) :
                      LET prevIndex == PrevIndex(currentIndex, Len(queue), shuffle, repeatMode, random)
                      IN  IF prevIndex = RETURN
                          THEN UNCHANGED <<audio, currentIndex, streamPending, streamQuery,
                                           layoutDevice>>
                          ELSE /\ currentIndex' = prevIndex
                               /\ audio' = At(queue, prevIndex)
                               /\ FetchEffect(At(queue, prevIndex))
                               /\ LayoutEffect(At(queue, prevIndex))
    /\ UNCHANGED <<status, repeatMode, shuffle, liked, queue, infoPending,
                   streamUrl, playerError, mounted, buffered, device, layout, serverVars,
                   calls, start>>

ClearQueue ==
    /\ queue' = <<>>
    /\ currentIndex' = -1
    /\ audio' = NULL
    /\ Observe("clearQueue")
    /\ UNCHANGED <<playback, status, repeatMode, shuffle, liked, infoPending,
                   playerVars, device, layoutVars, serverVars, calls, start>>

----------------------------------------------------------------------------
(* Initial states *)

\* The state the store is created with.
StoreInit ==
    /\ audio = NULL
    /\ playback = InitialPlayback
    /\ status = IDLE
    /\ repeatMode = OFF
    /\ shuffle = FALSE
    /\ liked = FALSE
    /\ queue = <<>>
    /\ currentIndex = -1

PlayerInit ==
    /\ streamUrl = NULL
    /\ streamPending = NoFetch
    /\ playerError = NULL
    /\ buffered = 0
    /\ device = NoDevice

LayoutInit ==
    /\ streamQuery = [id \in AudioIds |-> NoQuery]
    /\ layoutDevice = NoDevice

\* lib/youtube as loaded, and no request received.
ServerInit ==
    /\ innertubeInstance = NoSession
    /\ created = 0
    /\ route = [r \in Requests |-> NoRequest]

ObserverInit ==
    /\ op = "init"
    /\ from = currentIndex
    /\ calls = 0
    /\ start = [index |-> currentIndex, audio |-> audio]

\* The store seeded with a queue, as the store's tests seed it with setState:
\* the queue, a cursor inside it and the track at the cursor.
QueueSeed ==
    /\ playback = InitialPlayback
    /\ status = IDLE
    /\ liked = FALSE
    /\ \E n \in 0..MaxQueue :
         /\ queue = SubSeq(TrackIds, 1, n)
         /\ IF n = 0
            THEN currentIndex = -1 /\ audio = NULL
            ELSE /\ currentIndex \in 0..(n - 1)
                 /\ audio = At(queue, currentIndex)

\* The store as created, no FullPlayer.
Init ==
    /\ StoreInit
    /\ infoPending = NoFetch
    /\ PlayerInit
    /\ mounted = FALSE
    /\ LayoutInit
    /\ layout = FALSE
    /\ ServerInit
    /\ ObserverInit

\* The store seeded with a queue, no FullPlayer.
InitQueue ==
    /\ QueueSeed
    /\ repeatMode = OFF
    /\ shuffle = FALSE
    /\ infoPending = NoFetch
    /\ PlayerInit
    /\ mounted = FALSE
    /\ LayoutInit
    /\ layout = FALSE
    /\ ServerInit
    /\ ObserverInit

\* The store as created, with a FullPlayer rendered for it.
InitPlayer ==
    /\ StoreInit
    /\ infoPending = NoFetch
    /\ PlayerInit
    /\ mounted = TRUE
    /\ LayoutInit
    /\ layout = FALSE
    /\ ServerInit
    /\ ObserverInit

\* The store as created, rendered by the AppLayout.
InitLayout ==
    /\ StoreInit
    /\ infoPending = NoFetch
    /\ PlayerInit
    /\ mounted = FALSE
    /\ LayoutInit
    /\ layout = TRUE
    /\ ServerInit
    /\ ObserverInit

----------------------------------------------------------------------------
(* Specifications *)

\* One next() of a run of next() calls only; the first one records where
\* the run starts.
NextCall ==
    /\ calls <= MaxQueue
    /\ playNext
    /\ calls' = calls + 1
    /\ start' = IF calls = 0 THEN [index |-> currentIndex, audio |-> audio] ELSE start

\* What may come before the run: loads, close and the mode toggles.
Prepare ==
    /\ calls = 0
    /\ \/ \E id \in LoadIds : SetAudio(id)
       \/ \E id \in LoadIds : SetAudioOk(id)
       \/ ClearAudio
       \/ ToggleRepeatMode
       \/ ToggleShuffle

\* Every operation of the store.
Next ==
    \/ \E id \in LoadIds : SetAudio(id)
    \/ \E id \in LoadIds : SetAudioOk(id)
    \/ \E id \in LoadIds : SetAudioFail(id)
    \/ ClearAudio
    \/ TogglePlay
    \/ \E time \in TimeInputs : UpdatePlaybackTime(time)
    \/ \E duration \in DurationInputs : UpdatePlaybackDuration(duration)
    \/ \E speed \in SpeedInputs : UpdatePlaybackSpeed(speed)
    \/ ToggleRepeatMode
    \/ ToggleShuffle
    \/ ToggleLike
    \/ PlayNext
    \/ PlayPrevious
    \/ ClearQueue

Spec == Init /\ [][Next]_vars

\* Queue navigation and the operations that move the current track.
NextQueue ==
    \/ \E id \in LoadIds : SetAudio(id)
    \/ \E id \in LoadIds : SetAudioOk(id)
    \/ \E id \in LoadIds : SetAudioFail(id)
    \/ ClearAudio
    \/ \E time \in TimeInputs : UpdatePlaybackTime(time)
    \/ ToggleRepeatMode
    \/ ToggleShuffle
    \/ PlayNext
    \/ PlayPrevious
    \/ ClearQueue

SpecQueue == InitQueue /\ [][NextQueue]_vars

\* Some preparation, then next() called again and again and nothing else.
NextRun == Prepare \/ NextCall

SpecRun == InitQueue /\ [][NextRun]_vars /\ WF_vars(NextCall)

\* The FullPlayer and the operations that change its audioId.
NextPlayer ==
    \/ \E id \in LoadIds : SetAudio(id)
    \/ \E id \in LoadIds : SetAudioOk(id)
    \/ \E id \in LoadIds : SetAudioFail(id)
    \/ ClearAudio
    \/ PlayNext
    \/ \E id \in AudioIds : StreamFetchOk(id)
    \/ \E id \in AudioIds : StreamFetchFail(id)
    \/ ToggleRepeatMode
    \/ CanPlay
    \/ HandleEnded
    \/ HandleProgress
    \/ HandleError

SpecPlayer == InitPlayer /\ [][NextPlayer]_vars

\* The AppLayout: its handlers, its stream query and its audio element.
NextLayout ==
    \/ \E id \in LoadIds : SetAudio(id)
    \/ \E id \in LoadIds : SetAudioOk(id)
    \/ \E id \in LoadIds : SetAudioFail(id)
    \/ ClearAudio
    \/ TogglePlay
    \/ \E id \in AudioIds : StreamQueryOk(id)
    \/ \E id \in AudioIds : StreamQueryFail(id)
    \/ LayoutCanPlay
    \/ LayoutEnded
    \/ LayoutError

SpecLayout == InitLayout /\ [][NextLayout]_vars

\* The store seeded with a queue and a FullPlayer mounted for it: the fetch
\* effect has run for the track at the cursor.
InitRepeat ==
    /\ QueueSeed
    /\ repeatMode = OFF
    /\ shuffle = FALSE
    /\ infoPending = NoFetch
    /\ streamUrl = NULL
    /\ streamPending = IF audio = NULL THEN NoFetch ELSE Add(NoFetch, audio)
    /\ playerError = NULL
    /\ buffered = 0
    /\ device = NoDevice
    /\ mounted = TRUE
    /\ LayoutInit
    /\ layout = FALSE
    /\ ServerInit
    /\ ObserverInit

\* Playback of a queue in the FullPlayer: loads, the repeat mode, the stream
\* fetches (which succeed) and the element's canplay and ended events.
NextRepeat ==
    \/ \E id \in LoadIds : SetAudio(id)
    \/ \E id \in LoadIds : SetAudioOk(id)
    \/ ToggleRepeatMode
    \/ \E id \in AudioIds : StreamFetchOk(id)
    \/ CanPlay
    \/ HandleEnded

SpecRepeat == InitRepeat /\ [][NextRepeat]_vars

\* Loads from the search results and the completions of their fetches.
NextLoads ==
    \/ \E id \in AudioIds : Load(id)
    \/ \E id \in AudioIds : SetAudioOk(id)
    \/ \E id \in AudioIds : SetAudioFail(id)

SpecLoads == Init /\ [][NextLoads]_vars

\* The store as created, rendered by the AppLayout and by a FullPlayer.
InitBoth ==
    /\ StoreInit
    /\ infoPending = NoFetch
    /\ PlayerInit
    /\ mounted = TRUE
    /\ LayoutInit
    /\ layout = TRUE
    /\ ServerInit
    /\ ObserverInit

\* Loads, and what the two audio elements report of time and duration.
NextTime ==
    \/ \E id \in LoadIds : SetAudio(id)
    \/ \E id \in LoadIds : SetAudioOk(id)
    \/ PlayPrevious
    \/ \E id \in AudioIds : StreamQueryOk(id)
    \/ \E id \in AudioIds : StreamFetchOk(id)
    \/ LayoutCanPlay
    \/ LayoutTick
    \/ LayoutTimeUpdate
    \/ LayoutLoadedMetadata
    \/ HandleLoadedMetadata

SpecTime == InitBoth /\ [][NextTime]_vars

\* The info route serving its requests.
NextServer ==
    \/ \E r \in Requests, id \in RequestIds : RouteGet(r, id)
    \/ \E r \in Requests : CreateOk(r)
    \/ \E r \in Requests : CreateFail(r)
    \/ \E r \in Requests, valid \in BOOLEAN : GetInfoOk(r, valid)
    \/ \E r \in Requests : GetInfoFail(r)

SpecServer == Init /\ [][NextServer]_vars

----------------------------------------------------------------------------
(* Claims *)

\* C1. Queue cursor invariant: a non-empty queue has 0 <= currentIndex <
\* queue.length, and currentIndex = -1 exactly when the queue is empty, in
\* every state reached by playNext, playPrevious, clearQueue, setAudio,
\* clearAudio and the mode toggles from a state that satisfies it.
C1_QueueCursorInvariant ==
    /\ Len(queue) > 0 => (0 <= currentIndex /\ currentIndex < Len(queue))
    /\ currentIndex = -1 <=> Len(queue) = 0

\* next() has moved the cursor of a queue of two or more tracks to its end.
C1_Witness ==
    /\ op = "playNext"
    /\ Len(queue) >= 2
    /\ from = Len(queue) - 2
    /\ currentIndex = Len(queue) - 1

\* C2. Stale locator completions are discarded: once the current track has
\* changed from A to B, the completion of the stream fetch that was pending
\* for A never sets or overwrites the bound stream URL.
C2_StaleLocatorDiscarded ==
    [][\A id \in AudioIds :
         (streamPending'[id] < streamPending[id] /\ audio # NULL /\ id # audio)
            => streamUrl' = streamUrl]_vars

\* C3. With repeat = Off and shuffle off, next() called again and again on a
\* non-empty queue, from any index, reaches currentIndex = length - 1 and
\* then stays there.
C3_NextReachesEndAndStops ==
    (calls > 0 /\ repeatMode = OFF /\ ~shuffle /\ Len(queue) > 0)
        ~> [](currentIndex = Len(queue) - 1)

\* A run from index 0 of a queue of three or more tracks is at the end, and
\* next() has been called there again.
C3_Witness ==
    /\ repeatMode = OFF /\ ~shuffle
    /\ Len(queue) >= 3
    /\ start.index = 0
    /\ calls > Len(queue)
    /\ op = "playNext"
    /\ from = Len(queue) - 1
    /\ currentIndex = Len(queue) - 1

\* C4. Non-shuffle next() step on a non-empty queue: below length - 1 the
\* cursor moves to currentIndex + 1 and the current track to the track there;
\* at length - 1 it wraps to 0 when repeat = All, and otherwise the whole
\* store state is unchanged.
C4_NextStep ==
    [][(op' = "playNext" /\ ~shuffle /\ Len(queue) > 0) =>
         IF currentIndex < Len(queue) - 1
         THEN /\ currentIndex' = currentIndex + 1
              /\ audio' = At(queue, currentIndex + 1)
         ELSE IF repeatMode = ALL
              THEN currentIndex' = 0
              ELSE UNCHANGED storeVars]_vars

\* next() has wrapped from the end of a queue of two or more tracks.
C4_Witness ==
    /\ op = "playNext"
    /\ ~shuffle /\ repeatMode = ALL
    /\ Len(queue) >= 2
    /\ from = Len(queue) - 1
    /\ currentIndex = 0
    /\ audio = At(queue, 0)

RunFromStart ==
    /\ repeatMode = ALL /\ ~shuffle
    /\ Len(queue) > 0
    /\ start.index = 0
    /\ calls = Len(queue)

\* C5 as stated. With repeat = All and shuffle off, next() called exactly
\* queue.length times from currentIndex = 0 ends at currentIndex = 0 with the
\* current track equal to queue[0].
C5_Original ==
    RunFromStart => (currentIndex = 0 /\ audio = At(queue, 0))

\* C5 as amended. The run ends at currentIndex = 0; the current track is
\* queue[0] when the queue has two or more tracks, and on a one-track queue
\* the call changes nothing, so the current track is the one it was.
C5_NextRunReturnsToStart ==
    RunFromStart =>
        /\ currentIndex = 0
        /\ Len(queue) >= 2 => audio = At(queue, 0)
        /\ Len(queue) = 1 => audio = start.audio

\* A run over a queue of two or more tracks is back at index 0, having
\* started there beside another track.
C5_Witness ==
    /\ RunFromStart
    /\ Len(queue) >= 2
    /\ start.audio # At(queue, 0)
    /\ from = Len(queue) - 1
    /\ currentIndex = 0

\* C6. previous() called while currentTime > 3 sets currentTime to 0 and
\* leaves currentIndex, the current track and the queue unchanged, in every
\* shuffle and repeat setting.
C6_PreviousRestarts ==
    [][(op' = "playPrevious" /\ playback.currentTime > 3) =>
         /\ playback'.currentTime = 0
         /\ UNCHANGED <<currentIndex, audio, queue>>]_vars

\* previous() has run at a cursor above 0 with shuffle off and left it there:
\* only the restart does that.
C6_Witness ==
    /\ op = "playPrevious"
    /\ ~shuffle
    /\ from > 0
    /\ currentIndex = from
    /\ playback.currentTime = 0

\* C7. Non-shuffle previous() step with currentTime <= 3 on a non-empty
\* queue: above index 0 the cursor moves to currentIndex - 1 and the current
\* track to the track there; at index 0 it wraps to length - 1 when
\* repeat = All, and otherwise leaves currentIndex and the current track
\* unchanged.
C7_PreviousStep ==
    [][(op' = "playPrevious" /\ playback.currentTime <= 3 /\ ~shuffle
            /\ Len(queue) > 0) =>
         IF currentIndex > 0
         THEN /\ currentIndex' = currentIndex - 1
              /\ audio' = At(queue, currentIndex - 1)
         ELSE IF repeatMode = ALL
              THEN currentIndex' = Len(queue) - 1
              ELSE UNCHANGED <<currentIndex, audio>>]_vars

\* previous() has moved one track back at currentTime = 3, the last second
\* that does not restart.
C7_Witness ==
    /\ op = "playPrevious"
    /\ ~shuffle
    /\ playback.currentTime = 3
    /\ from = 1
    /\ currentIndex = 0
    /\ audio = At(queue, 0)

\* C8. With shuffle on and a queue of length >= 1, next() (and previous()
\* with currentTime <= 3) leaves currentIndex in [0, queue.length), and the
\* current track is queue[currentIndex] whenever the index changed; no read
\* of the queue is out of range.
C8_ShuffleInRange ==
    [][((op' = "playNext" \/ (op' = "playPrevious" /\ playback.currentTime <= 3))
            /\ shuffle /\ Len(queue) > 0) =>
         /\ currentIndex' \in 0..(Len(queue) - 1)
         /\ audio' # UNDEFINED
         /\ currentIndex' # currentIndex => audio' = At(queue, currentIndex')]_vars

\* A shuffled next() has jumped from the first to the last of three or more
\* tracks.
C8_Witness ==
    /\ op = "playNext"
    /\ shuffle
    /\ Len(queue) >= 3
    /\ from = 0
    /\ currentIndex = Len(queue) - 1
    /\ audio = At(queue, currentIndex)

\* C9. setSpeed clamps: in every reachable state 0.5 <= playback.speed <= 2.0
\* (setSpeed(3.0) stores 2.0 and setSpeed(0.1) stores 0.5).
C9_SpeedClamped ==
    playback.speed >= 50 /\ playback.speed <= 200

\* C10 as stated. Whenever the queue is empty, next() and previous() leave
\* the current track null.
C10_Original ==
    [][((op' = "playNext" \/ op' = "playPrevious") /\ Len(queue) = 0)
          => audio' = NULL]_vars

\* C10 as amended. Right after clearQueue(), next() and previous() leave the
\* current track null. Whenever the queue is empty, next() always, and
\* previous() when currentTime <= 3, set the current track to null;
\* previous() with currentTime > 3 only resets currentTime to 0 and leaves
\* the current track as it was.
C10_EmptyQueueNavigation ==
    [][((op' = "playNext" \/ op' = "playPrevious") /\ Len(queue) = 0) =>
         /\ op = "clearQueue" => audio' = NULL
         /\ (op' = "playNext" \/ playback.currentTime <= 3) => audio' = NULL
         /\ (op' = "playPrevious" /\ playback.currentTime > 3) =>
                (audio' = audio /\ playback'.currentTime = 0)
         /\ UNCHANGED <<queue, currentIndex>>]_vars

\* previous() has run on an empty queue at currentTime = 3 and the track a
\* load had made current is gone.
C10_Witness ==
    /\ op = "playPrevious"
    /\ Len(queue) = 0
    /\ playback.currentTime = 3
    /\ status = PLAYING
    /\ audio = NULL

\* C11. togglePlayPause() maps Playing to Paused and Paused to Playing, and
\* is a no-op (status unchanged) when status is Idle, Loading or Error; it
\* changes nothing but status.
C11_TogglePlayPause ==
    [][op' = "togglePlay" =>
         /\ status = PLAYING => status' = PAUSED
         /\ status = PAUSED => status' = PLAYING
         /\ status \in {IDLE, LOADING, ERROR} => status' = status
         /\ UNCHANGED <<audio, playback, repeatMode, shuffle, liked, queue,
                        currentIndex>>]_vars

\* C12. Every transition that sets status to Error starts in Loading or
\* Playing, across all interleavings of load completions with
\* togglePlayPause, clear/close and navigation.
C12_ErrorFromLoadingOrPlaying ==
    [][(status' = ERROR /\ status # ERROR) => status \in {LOADING, PLAYING}]_vars

\* C13. clear() resets the session from any prior state: after clearQueue()
\* the queue is empty, currentIndex is -1, the current track is null and
\* status is Idle; after close (clearAudio) the current track is null and
\* status is Idle.
C13_ClearResets ==
    [][/\ op' = "clearQueue" =>
            (queue' = <<>> /\ currentIndex' = -1 /\ audio' = NULL /\ status' = IDLE)
       /\ op' = "clearAudio" => (audio' = NULL /\ status' = IDLE)]_vars

\* C14. load(trackId) sets status to Loading at once; status then becomes
\* Playing only after the metadata fetch succeeded and the output device has
\* confirmed it can play the track's stream, or becomes Error if the
\* metadata fetch fails.
C14_LoadThenPlaying ==
    [][/\ op' = "setAudio" => status' = LOADING
       /\ (status = LOADING /\ status' = PLAYING) =>
              /\ audio' # NULL
              /\ layoutDevice'.src = audio'
              /\ layoutDevice'.canPlay
       /\ op' = "setAudioFail" => status' = ERROR]_vars

\* C15. While a metadata fetch issued by load is in flight the session stays
\* in Loading: togglePlayPause, next, previous and the mode toggles issued
\* before the fetch completes do not move status out of Loading.
C15_LoadingWhileInFlight ==
    [][(/\ Total(infoPending, AudioIds) > 0
        /\ status = LOADING
        /\ op' \in {"togglePlay", "playNext", "playPrevious", "toggleRepeatMode",
                    "toggleShuffle"})
          => status' = LOADING]_vars

C17_NoLocatorRetry ==
    \A id \in AudioIds :
        streamQuery[id].failureCount > 0 =>
            (streamQuery[id].error /\ ~streamQuery[id].fetching)

\* C18. A stream-locator fetch failure for the current track sets the
\* transport status to Error, with an error reason (the metadata-fetch
\* failure leaves none).
C18_LocatorFailureSetsError ==
    [][\A id \in AudioIds :
         (op' = "streamFail" /\ streamPending'[id] < streamPending[id] /\ id = audio)
            => (status' = ERROR /\ playerError' # NULL)]_vars

\* C19. A device error event received while status is Playing or Paused
\* sets status to Error, and no retry and no advance to another track
\* follows.  (The claim goes on: status stays Error until the caller issues
\* a new load/play; that rests on the status being Error in the first place.)
C19_DeviceErrorSetsError ==
    [][(op' = "error" /\ status \in {PLAYING, PAUSED}) =>
         /\ status' = ERROR
         /\ UNCHANGED <<audio, currentIndex, streamPending>>]_vars

\* The cursor and the current track after exactly one next().
OneNext ==
    IF Len(queue) = 0
    THEN audio' = StoppedAudio /\ currentIndex' = currentIndex
    ELSE \E random \in RandomIndices(Len(queue)) :
           LET nextIndex == NextIndex(currentIndex, Len(queue), shuffle, repeatMode, random)
           IN  IF nextIndex = RETURN
               THEN UNCHANGED <<audio, currentIndex>>
               ELSE currentIndex' = nextIndex /\ audio' = At(queue, nextIndex)

\* C20. End-of-track handling: when the device reports that playback ended,
\* if repeat = One the device is seeked to 0 and replays the same track with
\* currentIndex and current track unchanged; otherwise queue next() is
\* invoked exactly once.
C20_EndOfTrack ==
    [][(op' = "ended" \/ op' = "layoutEnded") =>
         IF repeatMode = ONE
         THEN /\ ~device'.ended /\ ~layoutDevice'.ended
              /\ UNCHANGED <<currentIndex, audio>>
         ELSE OneNext]_vars

\* C21. Playing a track directly (setAudio) never changes the queue
\* contents, and once it has taken effect currentIndex is -1 unless the
\* played track is the one already at queue[currentIndex].
C21_DirectPlayLeavesQueue ==
    [][op' = "setAudioOk" =>
         /\ queue' = queue
         /\ audio' # At(queue, currentIndex) => currentIndex' = -1]_vars

\* C22. In every reachable state where playback.duration is known (> 0),
\* playback.currentTime <= playback.duration, across device time updates,
\* duration updates, track changes (next/previous/load) and
\* previous()-restart.
C22_TimeWithinDuration ==
    playback.duration > 0 => playback.currentTime <= playback.duration


\* C23. Locators are never reused: every time a track becomes current,
\* including a return to a track that was current earlier, a new locator
\* fetch is issued and the locator obtained on the earlier visit is not bound
\* again.
C23_LocatorNeverReused ==
    [][(audio' # audio /\ audio' \in AudioIds) =>
         /\ streamQuery'[audio'].fetching
         /\ ~(streamQuery[audio'].data /\ layoutDevice'.src = audio')]_vars


\* C24. Locator binding invariant: whenever a stream locator is bound to an
\* output device it was fetched for the current track; after the current
\* track changes, the previous track's locator is no longer bound, also
\* while the new track's fetch is pending or after it has failed.
C24_LocatorOfCurrentTrack ==
    /\ device.src # NULL => device.src = audio
    /\ layoutDevice.src # NULL => layoutDevice.src = audio


\* C25. The buffered-through value reported for the session is monotonically
\* non-decreasing: each progress event stores a value >= the previously
\* stored one.  (handleProgress reads nothing but the element's buffered
\* ranges, so the value does not depend on currentTime.)
C25_BufferedMonotone ==
    [][op' = "progress" => buffered' >= buffered]_vars


\* C26. toggleRepeatMode advances the repeat mode in the fixed cycle
\* Off -> All -> One -> Off, so three consecutive toggles from any mode
\* restore that mode: each toggle takes the mode to its successor in the
\* cycle, and two more toggles from there give the mode it started from.
C26_RepeatCycle ==
    [][op' = "toggleRepeatMode" =>
         /\ \/ repeatMode = OFF /\ repeatMode' = ALL
            \/ repeatMode = ALL /\ repeatMode' = ONE
            \/ repeatMode = ONE /\ repeatMode' = OFF
         /\ NextMode(NextMode(repeatMode')) = repeatMode]_vars

\* A toggle has closed the cycle: the mode is Off again.
C26_Witness == op = "toggleRepeatMode" /\ repeatMode = OFF


\* C27. The session mode flags are orthogonal to playback: toggleShuffle and
\* toggleLike each negate exactly their own flag (applying one twice restores
\* the state), and they, like toggleRepeatMode, leave status, playback, the
\* current track, the queue, currentIndex and the other flags unchanged.
C27_FlagsOrthogonal ==
    [][/\ op' = "toggleShuffle" =>
            /\ shuffle' = ~shuffle
            /\ UNCHANGED <<status, playback, audio, queue, currentIndex, repeatMode, liked>>
       /\ op' = "toggleLike" =>
            /\ liked' = ~liked
            /\ UNCHANGED <<status, playback, audio, queue, currentIndex, repeatMode, shuffle>>
       /\ op' = "toggleRepeatMode" =>
            UNCHANGED <<status, playback, audio, queue, currentIndex, shuffle, liked>>]_vars

\* Shuffle has been switched on and off again and the track is liked, in the
\* middle of playback.
C27_Witness == op = "toggleShuffle" /\ ~shuffle /\ liked /\ status = PLAYING


\* C28. Overlapping loads resolve to the latest request: if load(A) is
\* followed by load(B) before A's metadata fetch has completed, then once
\* both fetches have completed the current track is B and status reflects
\* B's outcome, whatever order the two completions arrive in.  (Checked where
\* the last completion was a success: the current track is then the one the
\* latest load asked for.)
C28_LatestLoadWins ==
    (Total(infoPending, AudioIds) = 0 /\ op = "setAudioOk") => audio = start.audio


\* C29. In every reachable state, status Playing or Paused implies that a
\* current track exists (audio is not null), across clearQueue,
\* next()/previous() on an empty queue, clearAudio, togglePlay and load
\* completions.
C29_PlayingHasTrack ==
    status \in {PLAYING, PAUSED} => audio # NULL


\* C30. Repeat-All keeps playing: with repeat = All, shuffle off, status
\* Playing and a non-empty queue of any length (including one element), every
\* clean end-of-track is eventually followed by the device playing again,
\* assuming locator fetches succeed.  The element that has ended plays again
\* only when a stream URL is bound to it anew, so the end of the track at the
\* cursor has to leave the element playing or a stream fetch under way.
C30_RepeatAllKeepsPlaying ==
    [][(/\ op' = "ended"
        /\ repeatMode = ALL
        /\ ~shuffle
        /\ Len(queue) > 0
        /\ audio = At(queue, currentIndex)) =>
          (~device'.ended \/ Total(streamPending', AudioIds) > 0)]_vars
====
